---- MODULE Spec2Model ----
(***************************************************************************)
(* DefaultTransformManager (x-pack/plugins/observability/server/services/  *)
(* slo/transform_manager.ts): the five lifecycle operations install,       *)
(* preview, start, stop and uninstall, each a backend call wrapped in the  *)
(* transient-error retry policy and a catch/log/rethrow block.             *)
(*                                                                         *)
(* The retry policy (utils/retry) and the transform backend are not part   *)
(* of the sources at hand; they are modelled from the specification        *)
(* (sections 4.1, 6 and 7).                                                *)
(***************************************************************************)
EXTENDS Integers, Sequences, FiniteSets, TLC

VARIABLES jobs, proc, cy, esql

vars == <<jobs, proc, cy, esql>>

(* ------------------------------ bounds --------------------------------- *)

\* RetryConfig.maxRetries
MaxRetries == 3

\* callers that may have a lifecycle operation in flight
Procs == {"c1", "c2"}

\* transform ids the generators can produce
JobIds == {"job-1", "job-2"}

\* indicator types of the SLOs handed to install; "X" has no generator
Kinds == {"kql", "X"}

(* --------------------------- generator registry ------------------------ *)

\* the kinds the registry passed to the constructor has an entry for
Generators == {"kql"}

\* generator.getTransformParams(slo).transform_id
TransformIdOf(slo) == slo.id

SLOs == [kind : Kinds, id : JobIds]

(* ------------------------------ errors --------------------------------- *)

NoError == [type |-> "none", code |-> 0, detail |-> ""]

\* new Error(`Unsupported indicator type [${slo.indicator.type}]`)
UnsupportedError(kind) ==
  [type |-> "Error", code |-> 0, detail |-> <<"Unsupported indicator type", kind>>]

\* the error the client throws for a response status that is not ignored
ResponseError(status) == [type |-> "ResponseError", code |-> status, detail |-> ""]

\* the wrapper the retry policy raises once the retries are used up
RetriesExhaustedError(e) ==
  [type |-> "RetriesExhaustedError", code |-> e.code, detail |-> e.type]

(* ------------------------------ backend -------------------------------- *)

Ok == 200
Conflict == 409
NotFound == 404
ValidationError == 400
Unavailable == 503
Throttled == 429

\* statuses a backend call can fail with whatever the state of the job
Faults == {Unavailable, Throttled, ValidationError}

\* the response of the backend to one request, and the jobs after it
BackendRespond(api, js, id) ==
  CASE api = "putTransform" ->
         IF js[id] = "absent"
           THEN [status |-> Ok, jobs |-> [js EXCEPT ![id] = "stopped"]]
           ELSE [status |-> Conflict, jobs |-> js]
    [] api = "previewTransform" ->
         IF js[id] = "absent"
           THEN [status |-> NotFound, jobs |-> js]
           ELSE [status |-> Ok, jobs |-> js]
    [] api = "startTransform" ->
         IF js[id] = "absent" THEN [status |-> NotFound, jobs |-> js]
         ELSE IF js[id] = "running" THEN [status |-> Conflict, jobs |-> js]
         ELSE [status |-> Ok, jobs |-> [js EXCEPT ![id] = "running"]]
    [] api = "stopTransform" ->
         IF js[id] = "absent"
           THEN [status |-> NotFound, jobs |-> js]
           ELSE [status |-> Ok, jobs |-> [js EXCEPT ![id] = "stopped"]]
    [] api = "deleteTransform" ->
         IF js[id] = "absent"
           THEN [status |-> NotFound, jobs |-> js]
           ELSE [status |-> Ok, jobs |-> [js EXCEPT ![id] = "absent"]]

(* ---------------------------- retry policy ----------------------------- *)

\* error classification: TRANSIENT (503/429-equivalent) against FATAL
IsTransient(status) == status \in {Unavailable, Throttled}

\* gives up one attempt early
RetryDecisionOffByOne(attempt, thrown, status) ==
  IF ~thrown THEN "success"
  ELSE IF IsTransient(status)
    THEN IF attempt + 1 < MaxRetries THEN "retry" ELSE "exhausted"
    ELSE "fatal"

\* retries whatever the class of the error
RetryDecisionRetriesFatal(attempt, thrown, status) ==
  IF ~thrown THEN "success"
  ELSE IF attempt < MaxRetries THEN "retry"
  ELSE IF IsTransient(status) THEN "exhausted" ELSE "fatal"

\* retries a transient failure however many attempts have been made
RetryDecisionUnbounded(attempt, thrown, status) ==
  IF ~thrown THEN "success"
  ELSE IF IsTransient(status) THEN "retry" ELSE "fatal"

\* what executeWithRetry does with the outcome of attempt number `attempt`
RetryDecision(attempt, thrown, status) ==
  IF ~thrown THEN "success"
  ELSE IF IsTransient(status)
    THEN IF attempt < MaxRetries THEN "retry" ELSE "exhausted"
    ELSE "fatal"

(* ------------------------------ controller ----------------------------- *)

Ops == {"install", "preview", "start", "stop", "uninstall"}

\* stop sends the delete request
BackendApiStopDeletes(op) ==
  CASE op = "install" -> "putTransform"
    [] op = "preview" -> "previewTransform"
    [] op = "start" -> "startTransform"
    [] op = "stop" -> "deleteTransform"
    [] op = "uninstall" -> "deleteTransform"

\* preview sends the start request
BackendApiPreviewStarts(op) ==
  CASE op = "install" -> "putTransform"
    [] op = "preview" -> "startTransform"
    [] op = "start" -> "startTransform"
    [] op = "stop" -> "stopTransform"
    [] op = "uninstall" -> "deleteTransform"

\* the client method each operation hands to the retry policy
BackendApi(op) ==
  CASE op = "install" -> "putTransform"
    [] op = "preview" -> "previewTransform"
    [] op = "start" -> "startTransform"
    [] op = "stop" -> "stopTransform"
    [] op = "uninstall" -> "deleteTransform"

\* start without its ignore option
IgnoreNoConflict(op) ==
  CASE op = "stop" -> {NotFound}
    [] op = "uninstall" -> {NotFound}
    [] OTHER -> {}

\* stop without its ignore option
IgnoreNoNotFoundOnStop(op) ==
  CASE op = "start" -> {Conflict}
    [] op = "uninstall" -> {NotFound}
    [] OTHER -> {}

\* uninstall without its ignore option
IgnoreNoNotFoundOnUninstall(op) ==
  CASE op = "start" -> {Conflict}
    [] op = "stop" -> {NotFound}
    [] OTHER -> {}

\* install tolerates an existing job
IgnoreConflictOnInstall(op) ==
  CASE op = "install" -> {Conflict}
    [] op = "start" -> {Conflict}
    [] op = "stop" -> {NotFound}
    [] op = "uninstall" -> {NotFound}
    [] OTHER -> {}

\* start tolerates a missing job as stop and uninstall do
IgnoreNotFoundOnStart(op) ==
  CASE op = "start" -> {Conflict, NotFound}
    [] op = "stop" -> {NotFound}
    [] op = "uninstall" -> {NotFound}
    [] OTHER -> {}

\* the { ignore: [...] } option of each request
Ignore(op) ==
  CASE op = "start" -> {Conflict}
    [] op = "stop" -> {NotFound}
    [] op = "uninstall" -> {NotFound}
    [] OTHER -> {}

\* the message of the logger.error call in each catch block
ErrorLogMessage(op) ==
  CASE op = "install" -> "Cannot create SLO transform for indicator type"
    [] op = "preview" -> "Cannot preview SLO transform"
    [] op = "start" -> "Cannot start SLO transform"
    [] op = "stop" -> "Cannot stop SLO transform"
    [] op = "uninstall" -> "Cannot delete SLO transform"

\* what the error entry of an operation names: the indicator type for
\* install, the transform id for the others
LogSubject(op, kind, id) == IF op = "install" THEN kind ELSE id

Idle ==
  [pc |-> "idle", op |-> "none", kind |-> "", id |-> "",
   retried |-> FALSE, attempt |-> 0, calls |-> 0, warns |-> 0,
   status |-> 0, errors |-> <<>>,
   retryResult |-> NoError, outcome |-> "pending", error |-> NoError,
   value |-> "", waited |-> FALSE]

\* preview calls the client directly
RetriedNotPreview(op) == op # "preview"

\* whether the operation hands its request to retryTransientEsErrors
Retried(op) == TRUE

\* an operation about to send its request
Entered(op, kind, id) ==
  [Idle EXCEPT !.pc = "calling", !.op = op, !.kind = kind, !.id = id,
               !.retried = Retried(op)]

\* the catch block logs and then returns normally
SettleSwallows(r, retryErr) ==
  IF retryErr = NoError \/ r.op = "stop"
    THEN [r EXCEPT !.pc = "done", !.outcome = "resolved",
                   !.value = IF r.op = "install" THEN r.id ELSE "",
                   !.errors = IF retryErr = NoError THEN r.errors
                              ELSE Append(r.errors,
                                     [msg |-> ErrorLogMessage(r.op),
                                      subject |-> LogSubject(r.op, r.kind, r.id)])]
    ELSE [r EXCEPT !.pc = "done", !.outcome = "rejected", !.error = retryErr,
                   !.errors = Append(r.errors,
                      [msg |-> ErrorLogMessage(r.op),
                       subject |-> LogSubject(r.op, r.kind, r.id)])]

\* install does not wait for the put: it returns the id whatever the put does
SettleInstallNoAwait(r, retryErr) ==
  IF retryErr = NoError \/ r.op = "install"
    THEN [r EXCEPT !.pc = "done", !.outcome = "resolved",
                   !.value = IF r.op = "install" THEN r.id ELSE ""]
    ELSE [r EXCEPT !.pc = "done", !.outcome = "rejected", !.error = retryErr,
                   !.errors = Append(r.errors,
                      [msg |-> ErrorLogMessage(r.op),
                       subject |-> LogSubject(r.op, r.kind, r.id)])]

\* the catch block rethrows without logging
SettleNoLog(r, retryErr) ==
  IF retryErr = NoError
    THEN [r EXCEPT !.pc = "done", !.outcome = "resolved",
                   !.value = IF r.op = "install" THEN r.id ELSE ""]
    ELSE [r EXCEPT !.pc = "done", !.outcome = "rejected", !.error = retryErr]

\* the try/catch around the retried call: resolve when it resolved, log at
\* error severity and rethrow the same error when it rejected
Settle(r, retryErr) ==
  IF retryErr = NoError
    THEN [r EXCEPT !.pc = "done", !.outcome = "resolved",
                   !.value = IF r.op = "install" THEN r.id ELSE ""]
    ELSE [r EXCEPT !.pc = "done", !.outcome = "rejected", !.error = retryErr,
                   !.errors = Append(r.errors,
                      [msg |-> ErrorLogMessage(r.op),
                       subject |-> LogSubject(r.op, r.kind, r.id)])]

\* no Cypress helper has been called
NoCommands == [pc |-> "none"]

\* getEsqlQuery has not been called
NoQuery == [pc |-> "none"]

Init ==
  /\ jobs = [j \in JobIds |-> "absent"]
  /\ proc = [p \in Procs |-> Idle]
  /\ cy = NoCommands
  /\ esql = NoQuery

\* install without the generator lookup
InstallNoLookup(p, slo) ==
  /\ proc[p].pc = "idle"
  /\ proc' = [proc EXCEPT ![p] = Entered("install", slo.kind, TransformIdOf(slo))]
  /\ UNCHANGED <<jobs, cy, esql>>

\* install(slo): the generator lookup, and the entry into the retried put
Install(p, slo) ==
  /\ proc[p].pc = "idle"
  /\ IF slo.kind \notin Generators
       THEN proc' = [proc EXCEPT ![p] =
              [Idle EXCEPT !.pc = "done", !.op = "install", !.kind = slo.kind,
                           !.outcome = "rejected",
                           !.error = UnsupportedError(slo.kind),
                           !.errors = <<[msg |-> "No transform generator found for indicator type",
                                         subject |-> slo.kind]>>]]
       ELSE proc' = [proc EXCEPT ![p] = Entered("install", slo.kind, TransformIdOf(slo))]
  /\ UNCHANGED <<jobs, cy, esql>>

Preview(p, id) ==
  /\ proc[p].pc = "idle"
  /\ proc' = [proc EXCEPT ![p] = Entered("preview", "", id)]
  /\ UNCHANGED <<jobs, cy, esql>>

Start(p, id) ==
  /\ proc[p].pc = "idle"
  /\ proc' = [proc EXCEPT ![p] = Entered("start", "", id)]
  /\ UNCHANGED <<jobs, cy, esql>>

Stop(p, id) ==
  /\ proc[p].pc = "idle"
  /\ proc' = [proc EXCEPT ![p] = Entered("stop", "", id)]
  /\ UNCHANGED <<jobs, cy, esql>>

Uninstall(p, id) ==
  /\ proc[p].pc = "idle"
  /\ proc' = [proc EXCEPT ![p] = Entered("uninstall", "", id)]
  /\ UNCHANGED <<jobs, cy, esql>>

\* one attempt: the backend call, the client's ignore list, the decision of
\* the retry policy and, when the retried call is over, the catch block
Attempt(p) ==
  /\ proc[p].pc = "calling"
  /\ \E fault \in Faults \cup {0} :
       LET r == proc[p]
           resp == IF fault = 0
                     THEN BackendRespond(BackendApi(r.op), jobs, r.id)
                     ELSE [status |-> fault, jobs |-> jobs]
           thrown == resp.status # Ok /\ resp.status \notin Ignore(r.op)
           decision == IF r.retried
                         THEN RetryDecision(r.attempt, thrown, resp.status)
                         ELSE IF thrown THEN "fatal" ELSE "success"
           called == [r EXCEPT !.calls = r.calls + 1,
                               !.status = resp.status]
       IN /\ jobs' = resp.jobs
          /\ proc' = [proc EXCEPT ![p] =
               CASE decision = "success" -> Settle(called, NoError)
                 [] decision = "retry" ->
                      [called EXCEPT !.pc = "backoff", !.warns = r.warns + 1,
                                     !.attempt = r.attempt + 1]
                 [] decision = "exhausted" ->
                      LET e == RetriesExhaustedError(ResponseError(resp.status))
                      IN Settle([called EXCEPT !.retryResult = e], e)
                 [] decision = "fatal" ->
                      LET e == ResponseError(resp.status)
                      IN Settle([called EXCEPT !.retryResult = e], e)]
  /\ UNCHANGED <<cy, esql>>

\* the delay between two attempts has elapsed
Backoff(p) ==
  /\ proc[p].pc = "backoff"
  /\ proc' = [proc EXCEPT ![p].pc = "calling"]
  /\ UNCHANGED <<jobs, cy, esql>>

\* the caller has taken the result; it may call again
Return(p) ==
  /\ proc[p].pc = "done"
  /\ proc' = [proc EXCEPT ![p] = Idle]
  /\ UNCHANGED <<jobs, cy, esql>>

Next ==
  \/ \E p \in Procs, slo \in SLOs : Install(p, slo)
  \/ \E p \in Procs, id \in JobIds : Preview(p, id)
  \/ \E p \in Procs, id \in JobIds : Start(p, id)
  \/ \E p \in Procs, id \in JobIds : Stop(p, id)
  \/ \E p \in Procs, id \in JobIds : Uninstall(p, id)
  \/ \E p \in Procs : Attempt(p)
  \/ \E p \in Procs : Backoff(p)
  \/ \E p \in Procs : Return(p)

Spec == Init /\ [][Next]_vars

(* ---------------- stop as a request the backend takes time over -------- *)

\* the one caller of the specification below
Caller == "c1"

\* stop returns as soon as the backend has taken the request
WaitForCompletionOff == FALSE

\* the wait_for_completion option of the stop request
WaitForCompletion == TRUE

\* the backend takes a stop request for a running job: the job starts to
\* stop, and the response is held back until it has stopped when the
\* request asks to wait for completion
StopSend(p) ==
  /\ proc[p].pc = "calling"
  /\ proc[p].op = "stop"
  /\ jobs[proc[p].id] = "running"
  /\ jobs' = [jobs EXCEPT ![proc[p].id] = "stopping"]
  /\ LET called == [proc[p] EXCEPT !.calls = proc[p].calls + 1]
     IN proc' = [proc EXCEPT ![p] =
          IF WaitForCompletion
            THEN [called EXCEPT !.pc = "waiting", !.waited = TRUE]
            ELSE Settle([called EXCEPT !.status = Ok], NoError)]
  /\ UNCHANGED <<cy, esql>>

\* the backend has stopped job j and answers the requests waiting for it
StopCompletes(j) ==
  /\ jobs[j] = "stopping"
  /\ jobs' = [jobs EXCEPT ![j] = "stopped"]
  /\ proc' = [p \in Procs |->
       IF proc[p].pc = "waiting" /\ proc[p].id = j
         THEN Settle([proc[p] EXCEPT !.status = Ok], NoError)
         ELSE proc[p]]
  /\ UNCHANGED <<cy, esql>>

\* every other backend call: answered in one step
AttemptAtOnce(p) ==
  /\ Attempt(p)
  /\ (proc[p].op = "stop" /\ jobs[proc[p].id] = "running") => jobs' = jobs

\* one caller, one operation at a time: the backend of the specification
\* says nothing about requests for a job that is stopping
NextWait ==
  \/ \E slo \in SLOs : Install(Caller, slo)
  \/ \E id \in JobIds : Preview(Caller, id)
  \/ \E id \in JobIds : Start(Caller, id)
  \/ \E id \in JobIds : Stop(Caller, id)
  \/ \E id \in JobIds : Uninstall(Caller, id)
  \/ AttemptAtOnce(Caller)
  \/ Backoff(Caller)
  \/ Return(Caller)
  \/ StopSend(Caller)
  \/ \E j \in JobIds : StopCompletes(j)

SpecWait == Init /\ [][NextWait]_vars

\* one caller, one operation after the other
NextOne ==
  \/ \E slo \in SLOs : Install(Caller, slo)
  \/ \E id \in JobIds : Preview(Caller, id)
  \/ \E id \in JobIds : Start(Caller, id)
  \/ \E id \in JobIds : Stop(Caller, id)
  \/ \E id \in JobIds : Uninstall(Caller, id)
  \/ Attempt(Caller)
  \/ Backoff(Caller)
  \/ Return(Caller)

\* every backend call returns and every retry delay elapses
SpecFair ==
  /\ Init /\ [][NextOne]_vars
  /\ WF_vars(Attempt(Caller))
  /\ WF_vars(Backoff(Caller))

(***************************************************************************)
(* Cypress helpers (x-pack/test/security_solution_cypress/cypress/tasks/   *)
(* api_calls/prebuilt_rules.ts). A helper only enqueues commands; Cypress  *)
(* runs them one after the other and drops the rest of the queue when one  *)
(* of them fails.                                                          *)
(***************************************************************************)

\* longest list of rule assets handed to createAndInstallMockedPrebuiltRules
MaxRules == 2

RuleIds == {"rule-1", "rule-2"}

RuleLists == UNION {[1..n -> RuleIds] : n \in 0..MaxRules}

\* rules_installed and rules_not_installed of the status response
StatusBodies == [rules_installed : 0..1, rules_not_installed : 0..1]

\* { interval: 2000, timeout: 60000 } of waitTillPrebuiltRulesReadyToInstall
StatusInterval == 2000
StatusTimeout == 60000

\* { interval: 500, timeout: 12000 } of createNewRuleAsset
PutInterval == 500
PutTimeout == 12000

Command(cmd, arg, interval, timeout) ==
  [cmd |-> cmd, arg |-> arg, interval |-> interval, timeout |-> timeout]

CyLog == Command("log", "", 0, 0)

\* body.rules_installed + body.rules_not_installed
GetAvailablePrebuiltRulesCount(body) ==
  body.rules_installed + body.rules_not_installed

\* ready as soon as the status request has answered
ReadyToInstallAnyCount(count) == count >= 0

\* the check of waitTillPrebuiltRulesReadyToInstall
ReadyToInstall(count) == count > 0

\* the check of createNewRuleAsset
PutSucceeded(status) == status = 200

\* cy.request POST PERFORM_RULE_INSTALLATION_URL, mode ALL_RULES
InstallAllPrebuiltRulesRequest == <<Command("request", "install", 0, 0)>>

WaitTillPrebuiltRulesReadyToInstall ==
  <<Command("waitUntil", "status", StatusInterval, StatusTimeout)>>

ExcessivelyInstallAllPrebuiltRules ==
  <<CyLog>> \o WaitTillPrebuiltRulesReadyToInstall \o InstallAllPrebuiltRulesRequest

CreateNewRuleAsset(rule) ==
  <<CyLog, Command("waitUntil", rule, PutInterval, PutTimeout)>>

PreventPrebuiltRulesPackageInstallation ==
  <<Command("intercept", "/api/fleet/epm/packages/_bulk*", 0, 0),
    Command("intercept", "/api/fleet/epm/packages/security_detection_engine/*", 0, 0)>>

RECURSIVE ForEachCreateNewRuleAsset(_)
ForEachCreateNewRuleAsset(ruleAssets) ==
  IF ruleAssets = <<>> THEN <<>>
  ELSE CreateNewRuleAsset(Head(ruleAssets)) \o ForEachCreateNewRuleAsset(Tail(ruleAssets))

InstallPrebuiltRuleAssets(ruleAssets) ==
  <<CyLog>> \o PreventPrebuiltRulesPackageInstallation
            \o ForEachCreateNewRuleAsset(ruleAssets)

\* installs whatever the flag says
InstallToKibanaAlways(arg) == TRUE

\* installToKibana = true: the flag, true when the caller leaves it out
InstallToKibana(arg) == IF arg = "undefined" THEN TRUE ELSE arg = "true"

CreateAndInstallMockedPrebuiltRules(ruleAssets, installToKibana) ==
  InstallPrebuiltRuleAssets(ruleAssets) \o
    (IF InstallToKibana(installToKibana)
       THEN <<CyLog>> \o InstallAllPrebuiltRulesRequest
       ELSE <<>>)

\* the test run before the helper is called; the status the server reports
CyStart(body) ==
  [pc |-> "none", helper |-> "", rules |-> <<>>, installToKibana |-> "",
   queue |-> <<>>, retries |-> -1, elapsed |-> 0, attempts |-> 0,
   polls |-> 0, lastCount |-> -1, intercepts |-> 0, putOk |-> <<>>,
   installs |-> 0, failure |-> "", server |-> body]

InitCy ==
  /\ jobs = [j \in JobIds |-> "absent"]
  /\ proc = [p \in Procs |-> Idle]
  /\ esql = NoQuery
  /\ \E body \in StatusBodies : cy = CyStart(body)

CallExcessivelyInstallAllPrebuiltRules ==
  /\ cy.pc = "none"
  /\ cy' = [cy EXCEPT !.pc = "running",
                      !.helper = "excessivelyInstallAllPrebuiltRules",
                      !.queue = ExcessivelyInstallAllPrebuiltRules]
  /\ UNCHANGED <<jobs, proc, esql>>

CallCreateAndInstallMockedPrebuiltRules(ruleAssets, installToKibana) ==
  /\ cy.pc = "none"
  /\ cy' = [cy EXCEPT !.pc = "running",
                      !.helper = "createAndInstallMockedPrebuiltRules",
                      !.rules = ruleAssets,
                      !.installToKibana = installToKibana,
                      !.queue = CreateAndInstallMockedPrebuiltRules(ruleAssets, installToKibana)]
  /\ UNCHANGED <<jobs, proc, esql>>

Running(cmd) ==
  /\ cy.pc = "running"
  /\ cy.queue # <<>>
  /\ Head(cy.queue).cmd = cmd

RunLog ==
  /\ Running("log")
  /\ cy' = [cy EXCEPT !.queue = Tail(cy.queue)]
  /\ UNCHANGED <<jobs, proc, esql>>

RunIntercept ==
  /\ Running("intercept")
  /\ cy' = [cy EXCEPT !.queue = Tail(cy.queue), !.intercepts = cy.intercepts + 1]
  /\ UNCHANGED <<jobs, proc, esql>>

\* cy.request fails the test on a status that is not 2xx or 3xx
RunRequest ==
  /\ Running("request")
  /\ \E status \in {200, 500} :
       cy' = IF status = 200
               THEN [cy EXCEPT !.queue = Tail(cy.queue), !.installs = cy.installs + 1]
               ELSE [cy EXCEPT !.installs = cy.installs + 1,
                               !.pc = "failed", !.failure = "request"]
  /\ UNCHANGED <<jobs, proc, esql>>

\* cy.waitUntil: what follows one run of the check function. The command
\* is over when the check is truthy, throws when no retry is left and
\* otherwise waits for the interval and runs the check again
WaitUntilStep(c, truthy) ==
  LET left == IF c.retries = -1
                THEN Head(c.queue).timeout \div Head(c.queue).interval
                ELSE c.retries
  IN IF truthy
       THEN [c EXCEPT !.queue = Tail(c.queue), !.retries = -1,
                      !.elapsed = 0, !.attempts = 0]
     ELSE IF left < 1
       THEN [c EXCEPT !.pc = "failed", !.failure = "timeout", !.retries = left]
     ELSE [c EXCEPT !.retries = left - 1,
                    !.elapsed = c.elapsed + Head(c.queue).interval]

\* one run of the check of waitTillPrebuiltRulesReadyToInstall
PollStatus ==
  /\ Running("waitUntil")
  /\ Head(cy.queue).arg = "status"
  /\ \E ok \in BOOLEAN :
       IF ok
         THEN LET count == GetAvailablePrebuiltRulesCount(cy.server)
                  polled == [cy EXCEPT !.polls = cy.polls + 1, !.lastCount = count,
                                       !.attempts = cy.attempts + 1]
              IN cy' = WaitUntilStep(polled, ReadyToInstall(count))
         ELSE cy' = [cy EXCEPT !.polls = cy.polls + 1, !.attempts = cy.attempts + 1,
                               !.pc = "failed", !.failure = "request"]
  /\ UNCHANGED <<jobs, proc, esql>>

\* one run of the check of createNewRuleAsset (failOnStatusCode: false)
PutRuleAsset ==
  /\ Running("waitUntil")
  /\ Head(cy.queue).arg # "status"
  /\ \E status \in {200, 503} :
       LET put == [cy EXCEPT !.attempts = cy.attempts + 1,
                             !.putOk = IF PutSucceeded(status)
                                         THEN Append(cy.putOk, Head(cy.queue).arg)
                                         ELSE cy.putOk]
       IN cy' = WaitUntilStep(put, PutSucceeded(status))
  /\ UNCHANGED <<jobs, proc, esql>>

\* the queue has run dry
CyFinish ==
  /\ cy.pc = "running"
  /\ cy.queue = <<>>
  /\ cy' = [cy EXCEPT !.pc = "finished"]
  /\ UNCHANGED <<jobs, proc, esql>>

\* the server gets or loses prebuilt rule assets and rules while the test runs
ServerChanges ==
  /\ cy.pc = "running"
  /\ \E body \in StatusBodies :
       /\ body # cy.server
       /\ cy' = [cy EXCEPT !.server = body]
  /\ UNCHANGED <<jobs, proc, esql>>

NextCy ==
  \/ CallExcessivelyInstallAllPrebuiltRules
  \/ \E ruleAssets \in RuleLists, installToKibana \in {"true", "false", "undefined"} :
       CallCreateAndInstallMockedPrebuiltRules(ruleAssets, installToKibana)
  \/ RunLog
  \/ RunIntercept
  \/ RunRequest
  \/ PollStatus
  \/ PutRuleAsset
  \/ CyFinish
  \/ ServerChanges

SpecCy == InitCy /\ [][NextCy]_vars

(***************************************************************************)
(* getEsqlQuery (x-pack/plugins/stack_alerts/server/rule_types/es_query/   *)
(* lib/fetch_esql_query.ts). Texts are sequences of strings, dates are     *)
(* minutes, a value that may be undefined is a record with a defined flag. *)
(***************************************************************************)

\* largest params.timeWindowSize
MaxWindow == 2

Undefined == [defined |-> FALSE, value |-> 0]

Defined(v) == [defined |-> TRUE, value |-> v]

\* alertLimit: number | undefined
AlertLimits == {Undefined} \cup {Defined(n) : n \in {-1, 0, 1, 10}}

EsqlTexts == {<<"from logs">>, <<"from logs", " | limit 5">>}

TimeFields == {"@timestamp", "event.ingested"}

TimeUnits == {"m", "h"}

Nows == {1000, 2000}

\* JavaScript truthiness of a number | undefined (NaN apart)
Truthy(v) == v.defined /\ v.value # 0

\* minutes in one timeWindowUnit
UnitMinutes(unit) == IF unit = "h" THEN 60 ELSE 1

\* getTime(dataView, { from: `now-${size}${unit}`, to: 'now' }): the range
\* on the time field of the data view, or undefined without one
GetTime(hasTimeField, timeField, size, unit, now) ==
  IF hasTimeField
    THEN Defined([field |-> timeField,
                  gte |-> Defined(now - size * UnitMinutes(unit)),
                  lte |-> Defined(now)])
    ELSE Undefined

\* appends the limit whenever alertLimit is defined
QueryTextLimitWhenDefined(text, alertLimit) ==
  IF alertLimit.defined
    THEN text \o <<" | limit ", ToString(alertLimit.value)>>
    ELSE text

\* alertLimit ? `${params.esqlQuery.esql} | limit ${alertLimit}` : params.esqlQuery.esql
QueryText(text, alertLimit) ==
  IF Truthy(alertLimit)
    THEN text \o <<" | limit ", ToString(alertLimit.value)>>
    ELSE text

GetEsqlQuery(hasTimeField, params, alertLimit, now) ==
  LET timerangeFilter == GetTime(hasTimeField, params.timeField,
                                 params.timeWindowSize, params.timeWindowUnit, now)
      dateStart == IF timerangeFilter.defined
                     THEN timerangeFilter.value.gte ELSE Undefined
      dateEnd == IF timerangeFilter.defined
                   THEN timerangeFilter.value.lte ELSE Undefined
      rangeFilter == <<[range |-> (params.timeField :>
                          [lte |-> dateEnd, gt |-> dateStart,
                           format |-> "strict_date_optional_time"])]>>
  IN [query |-> [query |-> QueryText(params.esql, alertLimit),
                 filter |-> [bool |-> [filter |-> rangeFilter]]],
      dateStart |-> dateStart,
      dateEnd |-> dateEnd]

EsqlParams ==
  [esql : EsqlTexts, timeField : TimeFields,
   timeWindowSize : 1..MaxWindow, timeWindowUnit : TimeUnits]

InitEsql ==
  /\ jobs = [j \in JobIds |-> "absent"]
  /\ proc = [p \in Procs |-> Idle]
  /\ cy = NoCommands
  /\ \E params \in EsqlParams, alertLimit \in AlertLimits,
        now \in Nows, hasTimeField \in BOOLEAN :
       esql = [pc |-> "called", params |-> params, alertLimit |-> alertLimit,
               now |-> now, hasTimeField |-> hasTimeField, result |-> Undefined]

CallGetEsqlQuery ==
  /\ esql.pc = "called"
  /\ esql' = [esql EXCEPT !.pc = "returned",
                !.result = Defined(GetEsqlQuery(esql.hasTimeField, esql.params,
                                                esql.alertLimit, esql.now))]
  /\ UNCHANGED <<jobs, proc, cy>>

NextEsql == CallGetEsqlQuery

SpecEsql == InitEsql /\ [][NextEsql]_vars

TypeOK ==
  /\ jobs \in [JobIds -> {"absent", "stopped", "running"}]
  /\ \A p \in Procs :
       /\ proc[p].pc \in {"idle", "calling", "backoff", "done"}
       /\ proc[p].calls \in 0..(MaxRetries + 1)
       /\ proc[p].warns \in 0..MaxRetries

(* ------------------------------ properties ----------------------------- *)

\* the step in which caller p gets the response to one backend call
AttemptStep(p) ==
  /\ proc[p].pc = "calling"
  /\ proc'[p].calls = proc[p].calls + 1

\* the ignorable-outcome table of the lifecycle controller
DeclaredIgnorable(op) ==
  IF op = "start" THEN {409}
  ELSE IF op \in {"stop", "uninstall"} THEN {404}
  ELSE {}

\* a response that is a success for the caller of op
Succeeds(op, status) == status = 200 \/ status \in DeclaredIgnorable(op)

\* C1: install of a definition whose kind has no generator is rejected with
\* 'Unsupported indicator type [kind]'; no backend call is made and the
\* retry policy is never entered.
C1_UnsupportedKindFailsBeforeAnyCall ==
  \A p \in Procs :
    (proc[p].op = "install" /\ proc[p].kind \notin {"kql"}) =>
      /\ proc[p].pc = "done"
      /\ proc[p].outcome = "rejected"
      /\ proc[p].error.type = "Error"
      /\ proc[p].error.detail = <<"Unsupported indicator type", proc[p].kind>>
      /\ proc[p].calls = 0
      /\ proc[p].warns = 0
      /\ ~proc[p].retried

C1_Witness ==
  \E p \in Procs :
    /\ proc[p].op = "install" /\ proc[p].kind = "X"
    /\ proc[p].pc = "done" /\ proc[p].outcome = "rejected"

\* C2: a start that the backend answers with conflict (the job is already
\* running) resolves at once: no retry, no further call, the job stays
\* running; and every start the backend answers with ok or conflict
\* resolves with the job running, so repeating start changes nothing.
C2_StartOnRunningJobSucceeds ==
  [][\A p \in Procs :
       (AttemptStep(p) /\ proc[p].op = "start") =>
         /\ (proc'[p].status = 409) =>
               /\ jobs[proc[p].id] = "running"
               /\ jobs' = jobs
               /\ proc'[p].pc = "done"
               /\ proc'[p].outcome = "resolved"
               /\ proc'[p].error = NoError
               /\ proc'[p].warns = proc[p].warns
               /\ (proc[p].calls = 0 => proc'[p].calls = 1 /\ proc'[p].warns = 0)
         /\ (proc'[p].status \in {200, 409}) =>
               /\ proc'[p].outcome = "resolved"
               /\ jobs' = [jobs EXCEPT ![proc[p].id] = "running"]]_vars

C2_Witness ==
  \E p \in Procs :
    /\ proc[p].op = "start" /\ proc[p].pc = "done"
    /\ proc[p].status = 409 /\ proc[p].calls = 1 /\ proc[p].warns = 0
    /\ proc[p].outcome = "resolved"
    /\ jobs[proc[p].id] = "running"

\* C3: a stop or an uninstall that the backend answers with not-found (the
\* job does not exist) resolves at once: no retry, no further call, and the
\* backend is left as it was.
C3_StopAndUninstallOnAbsentJobSucceed ==
  [][\A p \in Procs :
       (/\ AttemptStep(p)
        /\ proc[p].op \in {"stop", "uninstall"}
        /\ proc'[p].status = 404) =>
         /\ jobs[proc[p].id] = "absent"
         /\ jobs' = jobs
         /\ proc'[p].pc = "done"
         /\ proc'[p].outcome = "resolved"
         /\ proc'[p].error = NoError
         /\ proc'[p].warns = proc[p].warns
         /\ (proc[p].calls = 0 => proc'[p].calls = 1 /\ proc'[p].warns = 0)]_vars

C3_Witness ==
  /\ \E p \in Procs :
       /\ proc[p].op = "stop" /\ proc[p].pc = "done"
       /\ proc[p].status = 404 /\ proc[p].calls = 1
       /\ proc[p].outcome = "resolved" /\ jobs[proc[p].id] = "absent"
  /\ \E p \in Procs :
       /\ proc[p].op = "uninstall" /\ proc[p].pc = "done"
       /\ proc[p].status = 404 /\ proc[p].calls = 1
       /\ proc[p].outcome = "resolved" /\ jobs[proc[p].id] = "absent"

\* C4: after N transient failures, N < maxRetries, the operation has not
\* given up and has logged N retries; when the next call succeeds the
\* operation resolves, after N+1 calls and N logged retries.
C4_SuccessAfterTransientFailures ==
  \A p \in Procs :
    /\ (/\ proc[p].status \in {503, 429}
        /\ proc[p].calls < MaxRetries) =>
          /\ proc[p].pc \in {"backoff", "calling"}
          /\ proc[p].warns = proc[p].calls
    /\ (/\ proc[p].calls >= 1
        /\ proc[p].calls - 1 < MaxRetries
        /\ Succeeds(proc[p].op, proc[p].status)) =>
          /\ proc[p].pc = "done"
          /\ proc[p].outcome = "resolved"
          /\ proc[p].warns = proc[p].calls - 1

C4_Witness ==
  \E p \in Procs :
    /\ proc[p].op = "preview" /\ proc[p].pc = "done"
    /\ proc[p].outcome = "resolved"
    /\ proc[p].calls = 3 /\ proc[p].warns = 2

\* C5: when every attempt fails transiently the operation ends after
\* exactly maxRetries+1 calls, rejected with a RetriesExhaustedError that
\* wraps the last transient error; an error of an operation that ended on a
\* fatal failure never has that type.
C5_RetriesExhausted ==
  \A p \in Procs :
    /\ (proc[p].pc = "done" /\ proc[p].status \in {503, 429}) =>
          /\ proc[p].calls = MaxRetries + 1
          /\ proc[p].warns = MaxRetries
          /\ proc[p].outcome = "rejected"
          /\ proc[p].error.type = "RetriesExhaustedError"
          /\ proc[p].error.code = proc[p].status
          /\ proc[p].error.detail = "ResponseError"
    /\ (proc[p].status \in {503, 429} /\ proc[p].calls = MaxRetries + 1) =>
          proc[p].pc = "done"
    /\ (/\ proc[p].pc = "done" /\ proc[p].outcome = "rejected"
        /\ proc[p].status \notin {503, 429}) =>
          proc[p].error.type \in {"Error", "ResponseError"}

C5_Witness ==
  \E p \in Procs :
    /\ proc[p].pc = "done" /\ proc[p].status = 429
    /\ proc[p].calls = MaxRetries + 1
    /\ proc[p].error.type = "RetriesExhaustedError"

\* C6: a failure that is not transient ends the operation in the step that
\* receives it: the error is handed to the caller as it is, no retry is
\* logged for it and no further call is made; received on the first
\* attempt, the operation has made exactly one call.
C6_FatalIsNeverRetried ==
  \A p \in Procs :
    (/\ proc[p].calls >= 1
     /\ proc[p].status \notin {503, 429}
     /\ ~Succeeds(proc[p].op, proc[p].status)) =>
       /\ proc[p].pc = "done"
       /\ proc[p].outcome = "rejected"
       /\ proc[p].retryResult = ResponseError(proc[p].status)
       /\ proc[p].warns = proc[p].calls - 1
       /\ (proc[p].attempt = 0 => proc[p].calls = 1 /\ proc[p].warns = 0)

C6_Witness ==
  \E p \in Procs :
    /\ proc[p].pc = "done" /\ proc[p].status = 400
    /\ proc[p].calls = 1 /\ proc[p].outcome = "rejected"

\* C7: an operation whose retried call failed is rejected with the error
\* the retried call failed with; an operation is resolved only when its
\* last response is ok or an outcome declared ignorable for it, and a
\* declared ignorable outcome always resolves it.
C7_NoErrorSwallowed ==
  \A p \in Procs :
    (proc[p].pc = "done" /\ proc[p].calls >= 1) =>
      /\ (proc[p].retryResult # NoError) =>
            /\ proc[p].outcome = "rejected"
            /\ proc[p].error = proc[p].retryResult
      /\ (~Succeeds(proc[p].op, proc[p].status)) =>
            /\ proc[p].outcome = "rejected"
            /\ proc[p].error # NoError
            /\ proc[p].error.code = proc[p].status
      /\ (proc[p].status \in DeclaredIgnorable(proc[p].op)) =>
            /\ proc[p].outcome = "resolved"
            /\ proc[p].error = NoError

C7_Witness ==
  /\ \E p \in Procs :
       /\ proc[p].pc = "done" /\ proc[p].op = "stop"
       /\ proc[p].status = 400 /\ proc[p].outcome = "rejected"
       /\ proc[p].error = ResponseError(400)
  /\ \E p \in Procs :
       /\ proc[p].pc = "done" /\ proc[p].op = "install"
       /\ proc[p].status = 409 /\ proc[p].outcome = "rejected"

TargetState(op) ==
  CASE op = "install" -> "stopped"
    [] op = "start" -> "running"
    [] op = "stop" -> "stopped"
    [] op = "uninstall" -> "absent"

\* the job state each step of install, start, stop, uninstall starts from
SourceState(op) ==
  CASE op = "install" -> "absent"
    [] op = "start" -> "stopped"
    [] op = "stop" -> "running"
    [] op = "uninstall" -> "stopped"

\* C9: when the backend answers without a fault, install on an absent job,
\* start on a stopped job, stop on a running job and uninstall on a stopped
\* job each resolve and leave the job stopped, running, stopped and removed;
\* and a job changes state only in a call of an operation on that job, and
\* then only to the state listed for that operation.
C9_LifecycleTransitions ==
  [][/\ \A p \in Procs :
          (/\ AttemptStep(p)
           /\ proc[p].op \in {"install", "start", "stop", "uninstall"}
           /\ proc'[p].status \notin {503, 429, 400}
           /\ jobs[proc[p].id] = SourceState(proc[p].op)) =>
             /\ proc'[p].pc = "done"
             /\ proc'[p].outcome = "resolved"
             /\ proc'[p].status = 200
             /\ jobs' = [jobs EXCEPT ![proc[p].id] = TargetState(proc[p].op)]
     /\ \A j \in JobIds :
          (jobs'[j] # jobs[j]) =>
             \E p \in Procs :
               /\ AttemptStep(p)
               /\ proc[p].id = j
               /\ proc[p].op \in {"install", "start", "stop", "uninstall"}
               /\ jobs'[j] = TargetState(proc[p].op)]_vars

C9_Witness ==
  \E p \in Procs, q \in Procs :
    /\ p # q /\ proc[p].id = proc[q].id
    /\ proc[q].pc = "done" /\ proc[q].op = "stop" /\ proc[q].status = 200
    /\ proc[q].outcome = "resolved"
    /\ proc[p].pc = "done" /\ proc[p].op = "uninstall" /\ proc[p].status = 200
    /\ proc[p].outcome = "resolved" /\ proc[p].calls = 1
    /\ jobs[proc[p].id] = "absent"

\* C10: no step of a preview, from its call to its result and whether its
\* request succeeds, is retried or fails, changes the jobs of the backend
\* or the state of any of them.
C10_PreviewChangesNothing ==
  [][\A p \in Procs :
       (/\ proc'[p] # proc[p]
        /\ (proc[p].op = "preview" \/ proc'[p].op = "preview")) =>
          jobs' = jobs]_vars

C10_Witness ==
  /\ \E p \in Procs :
       /\ proc[p].op = "preview" /\ proc[p].pc = "done"
       /\ proc[p].outcome = "resolved" /\ proc[p].warns >= 1
       /\ jobs[proc[p].id] = "running"
  /\ \E p \in Procs :
       /\ proc[p].op = "preview" /\ proc[p].pc = "done"
       /\ proc[p].outcome = "rejected"
       /\ jobs[proc[p].id] = "stopped"

\* C11: a stop that resolves for a job that exists returns with the job
\* stopped: in the step in which such a stop gets its result the backend
\* holds the job as stopped, not as running and not as stopping, and a stop
\* that is waiting for the backend has no result yet.
C11_StopReturnsAfterCompletion ==
  [][\A p \in Procs :
       /\ (/\ proc[p].op = "stop"
           /\ proc[p].pc # "done"
           /\ proc'[p].pc = "done"
           /\ proc'[p].outcome = "resolved"
           /\ proc'[p].status = 200) =>
             jobs'[proc[p].id] = "stopped"
       /\ (proc'[p].op = "stop" /\ jobs'[proc'[p].id] = "stopping") =>
             proc'[p].outcome = "pending"]_vars

C11_Witness ==
  \E p \in Procs :
    /\ proc[p].op = "stop" /\ proc[p].pc = "done"
    /\ proc[p].waited /\ proc[p].status = 200
    /\ proc[p].outcome = "resolved"
    /\ jobs[proc[p].id] = "stopped"

\* C12: operations in flight at the same time share nothing but the
\* backend: a step of one leaves the other as it is. Whatever the other
\* caller is doing, a start the backend answers for an installed job
\* resolves and leaves it running, an uninstall the backend answers resolves
\* and leaves the job removed, and a stop the backend answers resolves and
\* never brings a removed job back. Two starts of one job that both got an
\* answer for an installed job have both resolved with the job running; a
\* stop that found the job gone beside an uninstall of it has left it gone.
C12_ConcurrentCallsAreSafe ==
  /\ [] (\A p \in Procs, q \in Procs :
           (/\ p # q
            /\ proc[p].pc = "done" /\ proc[q].pc = "done"
            /\ proc[p].id = proc[q].id) =>
              /\ (/\ proc[p].op = "start" /\ proc[q].op = "start"
                  /\ proc[p].status \in {200, 409}
                  /\ proc[q].status \in {200, 409}) =>
                    /\ proc[p].outcome = "resolved"
                    /\ proc[q].outcome = "resolved"
                    /\ jobs[proc[p].id] = "running"
              /\ (/\ proc[p].op = "stop" /\ proc[q].op = "uninstall"
                  /\ proc[p].status = 404
                  /\ proc[q].status \in {200, 404}) =>
                    /\ proc[p].outcome = "resolved"
                    /\ proc[q].outcome = "resolved"
                    /\ jobs[proc[p].id] = "absent")
  /\ [][/\ \A p \in Procs, q \in Procs :
             (p # q) => (proc'[p] = proc[p] \/ proc'[q] = proc[q])
        /\ \A p \in Procs :
             (AttemptStep(p) /\ proc'[p].status \notin {503, 429, 400}) =>
               /\ (proc[p].op = "start" /\ jobs[proc[p].id] # "absent") =>
                     /\ proc'[p].outcome = "resolved"
                     /\ jobs' = [jobs EXCEPT ![proc[p].id] = "running"]
               /\ (proc[p].op = "uninstall") =>
                     /\ proc'[p].outcome = "resolved"
                     /\ jobs' = [jobs EXCEPT ![proc[p].id] = "absent"]
               /\ (proc[p].op = "stop") =>
                     /\ proc'[p].outcome = "resolved"
                     /\ jobs' = [jobs EXCEPT ![proc[p].id] =
                                   IF jobs[proc[p].id] = "absent"
                                     THEN "absent" ELSE "stopped"]]_vars

C12_Witness ==
  \E p \in Procs, q \in Procs :
    /\ p # q /\ proc[p].id = proc[q].id
    /\ proc[p].op = "stop" /\ proc[p].pc = "done"
    /\ proc[p].calls >= 2 /\ proc[p].status = 404
    /\ proc[p].outcome = "resolved"
    /\ proc[q].op = "uninstall" /\ proc[q].pc = "done"
    /\ proc[q].status = 200 /\ proc[q].outcome = "resolved"
    /\ jobs[proc[p].id] = "absent"

\* C13: install hands a transform id to its caller only when it resolves,
\* and it resolves only on a put the backend answered with ok: the id is
\* the one the generator produced when install was called, and in the step
\* that resolves install the job is created in the backend; an install that
\* is rejected or still in flight has returned no id.
C13_InstallReturnsIdAfterPut ==
  /\ [] (\A p \in Procs :
           (proc[p].op = "install") =>
             /\ (proc[p].outcome = "resolved") =>
                   /\ proc[p].status = 200
                   /\ proc[p].value = proc[p].id
                   /\ proc[p].value \in {"job-1", "job-2"}
             /\ (proc[p].outcome # "resolved") => proc[p].value = "")
  /\ [][\A p \in Procs, slo \in [kind : {"kql", "X"}, id : {"job-1", "job-2"}] :
          /\ (/\ proc[p].pc = "idle" /\ proc'[p].op = "install"
              /\ proc'[p].kind = "kql"
              /\ Install(p, slo)) =>
                proc'[p].id = slo.id
          /\ (/\ proc[p].op = "install"
              /\ proc[p].pc # "done"
              /\ proc'[p].outcome = "resolved") =>
                /\ jobs[proc[p].id] = "absent"
                /\ jobs'[proc[p].id] = "stopped"
                /\ proc'[p].value = proc[p].id]_vars

C13_Witness ==
  /\ \E p \in Procs :
       /\ proc[p].op = "install" /\ proc[p].pc = "done"
       /\ proc[p].outcome = "resolved" /\ proc[p].value = "job-2"
       /\ proc[p].calls = 2
       /\ jobs["job-2"] = "stopped"
  /\ \E p \in Procs :
       /\ proc[p].op = "install" /\ proc[p].pc = "done"
       /\ proc[p].outcome = "rejected" /\ proc[p].calls >= 1
       /\ proc[p].value = ""

\* C14: a put the backend answers for a job that already exists is a
\* conflict, and install is rejected with it in that step: the failure is
\* logged as a failed create, no id is returned, nothing is retried and the
\* job is left as it was.
C14_InstallOnExistingJobRejects ==
  [][\A p \in Procs :
       (/\ AttemptStep(p)
        /\ proc[p].op = "install"
        /\ jobs[proc[p].id] # "absent"
        /\ proc'[p].status \notin {503, 429, 400}) =>
          /\ proc'[p].status = 409
          /\ proc'[p].pc = "done"
          /\ proc'[p].outcome = "rejected"
          /\ proc'[p].error = [type |-> "ResponseError", code |-> 409, detail |-> ""]
          /\ proc'[p].errors =
               <<[msg |-> "Cannot create SLO transform for indicator type",
                  subject |-> proc[p].kind]>>
          /\ proc'[p].value = ""
          /\ proc'[p].warns = proc[p].warns
          /\ jobs' = jobs]_vars

C14_Witness ==
  \E p \in Procs :
    /\ proc[p].op = "install" /\ proc[p].pc = "done"
    /\ proc[p].status = 409 /\ proc[p].outcome = "rejected"
    /\ jobs[proc[p].id] = "running"

\* C15: a start the backend answers for a job that is absent is a
\* not-found, and start is rejected with it in that step, without a retry
\* and without a further call; no job is created or started.
C15_StartOnAbsentJobRejects ==
  [][\A p \in Procs :
       (/\ AttemptStep(p)
        /\ proc[p].op = "start"
        /\ jobs[proc[p].id] = "absent"
        /\ proc'[p].status \notin {503, 429, 400}) =>
          /\ proc'[p].status = 404
          /\ proc'[p].pc = "done"
          /\ proc'[p].outcome = "rejected"
          /\ proc'[p].error = [type |-> "ResponseError", code |-> 404, detail |-> ""]
          /\ proc'[p].warns = proc[p].warns
          /\ (proc[p].calls = 0 => proc'[p].calls = 1 /\ proc'[p].warns = 0)
          /\ jobs' = jobs]_vars

C15_Witness ==
  \E p \in Procs :
    /\ proc[p].op = "start" /\ proc[p].pc = "done"
    /\ proc[p].status = 404 /\ proc[p].calls = 1 /\ proc[p].warns = 0
    /\ proc[p].outcome = "rejected"
    /\ jobs[proc[p].id] = "absent"

\* C16: an operation that has been called gets its result: while every
\* backend call returns and every delay elapses, an operation in flight is
\* eventually resolved or rejected, and at no time has it made more than
\* maxRetries+1 backend calls.
C16_OperationsTerminate ==
  /\ [] (\A p \in Procs : proc[p].calls <= MaxRetries + 1)
  /\ \A p \in Procs :
       (proc[p].pc \in {"calling", "backoff"}) ~>
         (proc[p].pc = "done" /\ proc[p].outcome \in {"resolved", "rejected"})

C16_Witness ==
  \E p \in Procs :
    /\ proc[p].pc = "done" /\ proc[p].outcome = "rejected"
    /\ proc[p].calls = MaxRetries + 1

\* C17: excessivelyInstallAllPrebuiltRules sends the install request at
\* most once and only when the last status poll reported a count above
\* zero; the status is polled at most 31 times, 2 s apart and for no more
\* than 60 s, each poll that reports no rule being followed by a wait or,
\* after 60 s, by the failure of the command; after that failure no install
\* request has been or is ever sent.
C17_InstallOnlyWhenRulesAvailable ==
  (cy.helper = "excessivelyInstallAllPrebuiltRules") =>
    /\ cy.installs <= 1
    /\ (cy.installs = 1) => (cy.polls >= 1 /\ cy.lastCount > 0)
    /\ cy.polls <= 31
    /\ cy.elapsed <= 60000
    /\ (cy.failure = "" /\ cy.installs = 0 /\ cy.polls >= 1 /\ cy.lastCount = 0) =>
         /\ cy.pc = "running"
         /\ cy.elapsed = 2000 * cy.polls
    /\ (cy.failure = "timeout") =>
         /\ cy.pc = "failed"
         /\ cy.installs = 0
         /\ cy.lastCount = 0
         /\ cy.polls = 31
         /\ cy.elapsed = 60000

C17_Witness ==
  /\ cy.helper = "excessivelyInstallAllPrebuiltRules"
  /\ cy.pc = "finished"
  /\ cy.installs = 1
  /\ cy.polls = 3
  /\ cy.lastCount = 2

\* C18: createAndInstallMockedPrebuiltRules sends the install request at
\* most once, only when installToKibana is true or left out, and only when
\* both Fleet intercepts are registered and the PUT of every rule asset
\* given, in the order given, has returned 200; a PUT is sent at most 25
\* times, 500 ms apart, and when it never returns 200 or installToKibana is
\* false no install request is sent.
C18_InstallAfterAssetsCreated ==
  (cy.helper = "createAndInstallMockedPrebuiltRules") =>
    /\ cy.installs <= 1
    /\ (cy.installs = 1) =>
         /\ cy.installToKibana \in {"true", "undefined"}
         /\ cy.intercepts = 2
         /\ cy.putOk = cy.rules
    /\ (cy.installToKibana = "false") => cy.installs = 0
    /\ (cy.pc = "finished" /\ cy.installToKibana # "false") =>
         (cy.installs = 1 /\ cy.putOk = cy.rules)
    /\ cy.attempts <= 25
    /\ cy.elapsed <= 12000
    /\ (cy.failure = "timeout") =>
         /\ cy.installs = 0
         /\ cy.attempts = 25
         /\ Len(cy.putOk) < Len(cy.rules)

C18_Witness ==
  /\ cy.helper = "createAndInstallMockedPrebuiltRules"
  /\ cy.pc = "finished"
  /\ cy.installToKibana = "undefined"
  /\ cy.rules = <<"rule-2", "rule-1">>
  /\ cy.putOk = cy.rules
  /\ cy.installs = 1

\* C19: the query text getEsqlQuery returns is the rule's text followed by
\* ' | limit <alertLimit>' when alertLimit is a number other than 0, and the
\* rule's text as it is when alertLimit is undefined or 0; the request has
\* exactly one filter, a range on the rule's time field alone with gt the
\* start and lte the end of the time window and no gte or lt, and dateStart
\* and dateEnd of the result are those two bounds.
C19_EsqlQueryLimitAndRange ==
  (esql.pc = "returned") =>
    LET r == esql.result.value
        text == esql.params.esql
        limit == esql.alertLimit
        filters == r.query.filter.bool.filter
        range == filters[1].range
        window == esql.params.timeWindowSize *
                    (IF esql.params.timeWindowUnit = "h" THEN 60 ELSE 1)
    IN /\ (limit.defined /\ limit.value # 0) =>
             /\ Len(r.query.query) = Len(text) + 2
             /\ SubSeq(r.query.query, 1, Len(text)) = text
             /\ r.query.query[Len(text) + 1] = " | limit "
             /\ r.query.query[Len(text) + 2] = ToString(limit.value)
       /\ (~limit.defined \/ limit.value = 0) => r.query.query = text
       /\ Len(filters) = 1
       /\ DOMAIN range = {esql.params.timeField}
       /\ DOMAIN range[esql.params.timeField] = {"lte", "gt", "format"}
       /\ range[esql.params.timeField].gt = r.dateStart
       /\ range[esql.params.timeField].lte = r.dateEnd
       /\ esql.hasTimeField =>
             /\ r.dateEnd = [defined |-> TRUE, value |-> esql.now]
             /\ r.dateStart = [defined |-> TRUE, value |-> esql.now - window]

C19_Witness ==
  /\ esql.pc = "returned"
  /\ esql.alertLimit = [defined |-> TRUE, value |-> 10]
  /\ esql.params.esql = <<"from logs", " | limit 5">>
  /\ esql.result.value.query.query = <<"from logs", " | limit 5", " | limit ", "10">>
  /\ esql.result.value.dateStart = [defined |-> TRUE, value |-> 880]
  /\ esql.result.value.dateEnd = [defined |-> TRUE, value |-> 1000]
====
